---- MODULE Spec2Model ----
(***************************************************************************)
(* Model of the cleanlab integration of Hub:                               *)
(*   hub/integrations/cleanlab/cleanlab.py      clean_labels, clean_view   *)
(*   hub/integrations/cleanlab/label_issues.py  the cross-validation loop  *)
(*                                              and the clean retraining   *)
(* Three specifications share the module:                                  *)
(*   Spec    clean_labels and clean_view acting on one versioned dataset   *)
(*   SpecCV  estimate_cv_predicted_probabilities                           *)
(*   SpecPL  get_predicted_labels                                          *)
(***************************************************************************)
EXTENDS Integers, Sequences, FiniteSets, TLC

\* ------------------------------------------------------------------ bounds
\* Number of samples of the dataset clean_labels / clean_view work on.
DsLen == 2
\* Quality scores range over 0..MaxScore.
MaxScore == 1
\* Number of samples of the dataset label_issues.py works on.
NumSamples == 4
\* Labels range over 0..MaxLabel.
MaxLabel == 1
\* The `folds` argument ranges over 1..MaxFolds.
MaxFolds == 3

VARIABLES
    \* ---- clean_labels / clean_view (cleanlab.py)
    dataset,         \* the Hub dataset: read_only, branch, branches, tensors, samples
    pc,              \* position in the running call
    op,              \* the public operation that is running
    args,            \* the arguments of the running call
    default_branch,  \* local of clean_labels (line 86); Unbound until assigned
    results,         \* (label_issues, label_quality_scores, predicted_labels)
    ret,             \* value returned by clean_labels
    cleaned_dataset, \* value returned by clean_view: the positions of the view
    label_issues,    \* the label_issues argument of clean_view
    err,             \* exception that reached the caller
    entry,           \* the dataset as it was when the call started
    log,             \* calls made on collaborators during the running call
    \* ---- estimate_cv_predicted_probabilities (label_issues.py)
    cv_pc, cv_labels, cv_folds, test_folds, fold, pred_probs, row_writes, models,
    \* ---- get_predicted_labels (label_issues.py)
    pl_pc, pl_label_issues, pl_cleaned, pl_model, predicted_labels

clVars == <<dataset, pc, op, args, default_branch, results, ret, cleaned_dataset,
            label_issues, err, entry, log>>
cvVars == <<cv_pc, cv_labels, cv_folds, test_folds, fold, pred_probs, row_writes,
            models>>
plVars == <<pl_pc, pl_label_issues, pl_cleaned, pl_model, predicted_labels>>
vars == <<clVars, cvVars, plVars>>

\* ------------------------------------------------------------ shared values
None == "None"
Unbound == "<unbound>"
NoError == "NoError"

\* ====================================================================
\* The dataset (hub.core.dataset.Dataset, used through its interface)
\* ====================================================================
BranchNames == {"main", "dev"}

Masks == [1..DsLen -> BOOLEAN]

NoGroup == [exists |-> FALSE, is_label_issue |-> <<>>, label_quality_scores |-> <<>>]

TensorGroup(mask, scores) ==
    [exists |-> TRUE, is_label_issue |-> mask, label_quality_scores |-> scores]

\* dataset.checkout(name, create): a plain checkout of a missing branch and a
\* creating checkout of an existing one raise CheckoutError; a created branch
\* forks from the active one.
Checkout(ds, name, create) ==
    IF create
    THEN IF name \in ds.branches
         THEN [raised |-> TRUE, ds |-> ds]
         ELSE [raised |-> FALSE,
               ds |-> [ds EXCEPT !.branches = @ \cup {name},
                                 !.tensors[name] = ds.tensors[ds.branch],
                                 !.branch = name]]
    ELSE IF name \in ds.branches
         THEN [raised |-> FALSE, ds |-> [ds EXCEPT !.branch = name]]
         ELSE [raised |-> TRUE, ds |-> ds]

\* "label_issues/is_label_issue" in dataset.tensors, on the active branch.
HasLabelIssues(ds) == ds.tensors[ds.branch].exists

\* create_label_issues_tensors: writes the label_issues group on the active
\* branch; an existing group is replaced only under overwrite.
CreateLabelIssuesTensors(ds, mask, scores, overwrite) ==
    IF HasLabelIssues(ds) /\ ~overwrite
    THEN [raised |-> TRUE, ds |-> ds]
    ELSE [raised |-> FALSE,
          ds |-> [ds EXCEPT !.tensors[ds.branch] =
                      TensorGroup(mask, scores)]]

\* ~mask
Invert(mask) == [i \in DOMAIN mask |-> ~mask[i]]

RECURSIVE Positions(_, _)
\* The positions i >= from whose mask entry is true, ascending.
Positions(mask, from) ==
    IF from > Len(mask) THEN <<>>
    ELSE IF mask[from] THEN <<from>> \o Positions(mask, from + 1)
         ELSE Positions(mask, from + 1)

\* subset_dataset(dataset, mask): the view keeps the index mapping only.
SubsetDataset(mask) == Positions(mask, 1)

\* ====================================================================
\* clean_labels (cleanlab.py 8..130)
\* ====================================================================
NoResults == [label_issues |-> <<>>, label_quality_scores |-> <<>>,
              predicted_labels |-> <<>>]

\* What get_label_issues may hand back for a dataset of DsLen samples: a mask,
\* a score per sample (0 for the flagged ones) and a predicted class per sample.
GetLabelIssuesOutputs ==
    {[label_issues |-> m,
      label_quality_scores |-> [i \in 1..DsLen |-> IF m[i] THEN 0 ELSE s],
      predicted_labels |-> [i \in 1..DsLen |-> c]] :
        m \in Masks, s \in 1..MaxScore, c \in 0..MaxLabel}

CleanLabelsArgs ==
    [is_dataset : BOOLEAN, dataset_valid : {"None", "other"},
     create_tensors : BOOLEAN, overwrite : BOOLEAN,
     branch : BranchNames \cup {None}]

NoArgs == [is_dataset |-> TRUE, dataset_valid |-> "None", create_tensors |-> FALSE,
           overwrite |-> FALSE, branch |-> None]

Ev(name, branch) == [ev |-> name, branch |-> branch]

Raise(e) ==
    /\ pc' = "raised"
    /\ err' = e

\* Lines 89..92: try checkout(branch), on CheckoutError checkout(branch, create=True).
CheckoutOrCreate(ds, branch) ==
    LET plain == Checkout(ds, branch, FALSE)
    IN  IF ~plain.raised
        THEN [ds |-> plain.ds, log |-> <<Ev("checkout", branch)>>]
        ELSE [ds |-> Checkout(ds, branch, TRUE).ds,
              log |-> <<Ev("checkout_error", branch), Ev("create", branch)>>]

\* Lines 69..75: is_dataset(dataset) and, when given, is_dataset(dataset_valid).
ArgumentsRejected(a) == ~a.is_dataset \/ a.dataset_valid = "other"

\* Variant of ReadOnlyRejected: the read-only check is left out.
ReadOnlyRejected_Missing(a, ds) == FALSE

\* Lines 77..79: create_tensors on a read-only dataset.
ReadOnlyRejected(a, ds) == a.create_tensors /\ ds.read_only

\* Lines 77, 84: the target branch is looked at only under create_tensors.
SwitchesBranch(a) == a.create_tensors /\ a.branch # None

\* Lines 69..97: argument checks, read-only check, switch to the target branch.
CL_Call(a) ==
    /\ pc = "idle"
    /\ op' = "clean_labels"
    /\ args' = a
    /\ entry' = dataset
    /\ IF ArgumentsRejected(a)
       THEN /\ Raise("TypeError")
            /\ UNCHANGED <<dataset, default_branch, log>>
       ELSE IF ReadOnlyRejected(a, dataset)
       THEN /\ Raise("ValueError")
            /\ UNCHANGED <<dataset, default_branch, log>>
       ELSE IF SwitchesBranch(a)
       THEN LET co == CheckoutOrCreate(dataset, a.branch)
            IN  /\ default_branch' = dataset.branch
                /\ dataset' = co.ds
                /\ log' = co.log
                /\ pc' = "switched"
                /\ UNCHANGED err
       ELSE /\ pc' = "switched"
            /\ UNCHANGED <<dataset, default_branch, log, err>>
    /\ UNCHANGED <<results, ret, cleaned_dataset, label_issues>>
    /\ UNCHANGED <<cvVars, plVars>>

\* Lines 99..114: get_label_issues trains the classifiers and returns the triple,
\* or fails inside the pipeline.
CL_GetLabelIssues ==
    /\ pc = "switched"
    /\ op = "clean_labels"
    /\ log' = Append(log, Ev("fit", dataset.branch))
    /\ \/ \E r \in GetLabelIssuesOutputs :
            /\ results' = r
            /\ pc' = "computed"
            /\ UNCHANGED err
       \/ /\ Raise("PipelineError")
          /\ UNCHANGED results
    /\ UNCHANGED <<dataset, op, args, default_branch, ret, cleaned_dataset,
                   label_issues, entry>>
    /\ UNCHANGED <<cvVars, plVars>>

\* Variant of OverwriteArg: the write step always overwrites.
OverwriteArg_Always(a) == TRUE

\* Line 122: overwrite=overwrite.
OverwriteArg(a) == a.overwrite

\* Lines 116..124: the write step.
CL_CreateTensors ==
    /\ pc = "computed"
    /\ op = "clean_labels"
    /\ IF args.create_tensors
       THEN LET w == CreateLabelIssuesTensors(dataset, results.label_issues,
                         results.label_quality_scores, OverwriteArg(args))
            IN  IF w.raised
                THEN /\ Raise("TensorAlreadyExistsError")
                     /\ log' = Append(log, Ev("write_refused", dataset.branch))
                     /\ UNCHANGED dataset
                ELSE /\ dataset' = w.ds
                     /\ log' = Append(log, Ev("write", dataset.branch))
                     /\ pc' = "written"
                     /\ UNCHANGED err
       ELSE /\ pc' = "written"
            /\ UNCHANGED <<dataset, log, err>>
    /\ UNCHANGED <<op, args, default_branch, results, ret, cleaned_dataset,
                   label_issues, entry>>
    /\ UNCHANGED <<cvVars, plVars>>

\* Variant of SwitchBack: the switch back is left out.
SwitchBack_Skipped(ds, to) == ds

\* Line 128: dataset.checkout(default_branch).
SwitchBack(ds, to) == Checkout(ds, to, FALSE).ds

\* Lines 126..130: switch back and return.  default_branch is assigned on line
\* 86 only; reading it unassigned raises UnboundLocalError.
CL_Restore ==
    /\ pc = "written"
    /\ op = "clean_labels"
    /\ IF args.branch # None
       THEN IF default_branch = Unbound
            THEN /\ Raise("UnboundLocalError")
                 /\ UNCHANGED <<dataset, log, ret>>
            ELSE /\ dataset' = SwitchBack(dataset, default_branch)
                 /\ log' = Append(log, Ev("checkout", default_branch))
                 /\ pc' = "returned"
                 /\ ret' = results
                 /\ UNCHANGED err
       ELSE /\ pc' = "returned"
            /\ ret' = results
            /\ UNCHANGED <<dataset, log, err>>
    /\ UNCHANGED <<op, args, default_branch, results, cleaned_dataset,
                   label_issues, entry>>
    /\ UNCHANGED <<cvVars, plVars>>

\* ====================================================================
\* clean_view (cleanlab.py 133..171)
\* ====================================================================
NoMask == [kind |-> "None", value |-> <<>>]

CleanViewArgs ==
    {NoMask, [kind |-> "other", value |-> <<>>]}
        \cup {[kind |-> "ndarray", value |-> m] : m \in Masks}

\* Variant of CleanViewMask: a persisted mask is preferred to the supplied one.
CleanViewMask_PersistedFirst(a, ds) ==
    IF HasLabelIssues(ds)
    THEN [raised |-> NoError,
          mask |-> Invert(ds.tensors[ds.branch].is_label_issue)]
    ELSE IF a.kind = "ndarray"
    THEN [raised |-> NoError, mask |-> Invert(a.value)]
    ELSE [raised |-> IF a.kind = "None" THEN "ValueError" ELSE "TypeError",
          mask |-> <<>>]

\* Lines 150..169: which mask filters the dataset, or which error is raised.
CleanViewMask(a, ds) ==
    IF a.kind # "None"
    THEN IF a.kind = "ndarray"
         THEN [raised |-> NoError, mask |-> Invert(a.value)]
         ELSE [raised |-> "TypeError", mask |-> <<>>]
    ELSE IF HasLabelIssues(ds)
    THEN [raised |-> NoError,
          mask |-> Invert(ds.tensors[ds.branch].is_label_issue)]
    ELSE [raised |-> "ValueError", mask |-> <<>>]

CleanView(a) ==
    /\ pc = "idle"
    /\ op' = "clean_view"
    /\ label_issues' = a
    /\ entry' = dataset
    /\ LET m == CleanViewMask(a, dataset)
       IN  IF m.raised = NoError
           THEN /\ cleaned_dataset' = SubsetDataset(m.mask)
                /\ pc' = "returned"
                /\ UNCHANGED err
           ELSE /\ Raise(m.raised)
                /\ UNCHANGED cleaned_dataset
    /\ UNCHANGED <<dataset, args, default_branch, results, ret, log>>
    /\ UNCHANGED <<cvVars, plVars>>

\* The caller takes the result (or the exception); the call's locals are gone.
Finish ==
    /\ pc \in {"returned", "raised"}
    /\ pc' = "idle"
    /\ op' = "none"
    /\ args' = NoArgs
    /\ default_branch' = Unbound
    /\ results' = NoResults
    /\ ret' = NoResults
    /\ cleaned_dataset' = <<>>
    /\ label_issues' = NoMask
    /\ err' = NoError
    /\ log' = <<>>
    /\ entry' = dataset
    /\ UNCHANGED dataset
    /\ UNCHANGED <<cvVars, plVars>>

InitDataset ==
    {[read_only |-> ro, branch |-> "main", branches |-> {"main"},
      tensors |-> [b \in BranchNames |-> NoGroup],
      samples |-> [i \in 1..DsLen |-> i]] : ro \in BOOLEAN}

InitCL ==
    /\ dataset \in InitDataset
    /\ pc = "idle"
    /\ op = "none"
    /\ args = NoArgs
    /\ default_branch = Unbound
    /\ results = NoResults
    /\ ret = NoResults
    /\ cleaned_dataset = <<>>
    /\ label_issues = NoMask
    /\ err = NoError
    /\ entry = dataset
    /\ log = <<>>

\* ====================================================================
\* Classifier instances (sklearn.base.clone, fit)
\* ====================================================================
\* An instance remembers the index sets it was fit on, one per fit call.
Untrained == [fits |-> <<>>]

\* The model the caller supplies is instance 1.
CallerModel == 1

\* Variant of ModelCopy: the supplied model is used as it is, without a clone.
ModelCopy_Reuse(ms) == [models |-> ms, id |-> CallerModel]

\* clone(model): a new untrained instance next to the existing ones.
ModelCopy(ms) == [models |-> Append(ms, Untrained), id |-> Len(ms) + 1]

\* instance.fit(X=subset)
Fit(ms, id, idx) == [ms EXCEPT ![id].fits = Append(@, idx)]

\* ====================================================================
\* estimate_cv_predicted_probabilities (label_issues.py 11..58)
\* ====================================================================
Samples == 1..NumSamples

LabelVectors == [Samples -> 0..MaxLabel]

Count(labels, c) == Cardinality({i \in Samples : labels[i] = c})

CountBelow(labels, c) == Cardinality({i \in Samples : labels[i] < c})

\* np.sort(y)[p], p counted from 0.
SortedAt(labels, p) ==
    CHOOSE c \in 0..MaxLabel :
        CountBelow(labels, c) <= p /\ p < CountBelow(labels, c + 1)

\* StratifiedKFold: fold j takes every K-th sample of the class-sorted labels,
\* starting at j; this fixes how many samples of class c fold j holds out.
Allocation(labels, K, j, c) ==
    Cardinality({p \in 0..(NumSamples - 1) : p % K = j /\ SortedAt(labels, p) = c})

\* StratifiedKFold(n_splits=K, shuffle=True): within a class the samples are
\* dealt to the folds in any order.
StratifiedTestFolds(labels, K) ==
    {f \in [Samples -> 0..(K - 1)] :
        \A j \in 0..(K - 1), c \in 0..MaxLabel :
            Cardinality({i \in Samples : labels[i] = c /\ f[i] = j})
                = Allocation(labels, K, j, c)}

\* StratifiedKFold refuses n_splits < 2 and n_splits above every class count.
SplitRejected(labels, K) ==
    \/ K < 2
    \/ \A c \in {labels[i] : i \in Samples} : K > Count(labels, c)

\* Variant of HoldoutIdx: a fold's holdout also takes the earlier folds' rows.
HoldoutIdx_UpTo(f, j) == {i \in Samples : f[i] <= j}

\* Line 34: the split of fold j.
HoldoutIdx(f, j) == {i \in Samples : f[i] = j}

TrainIdx(f, j) == {i \in Samples : f[i] # j}

\* Lines 22..31 and the first step of the split: the zero matrix, the folds.
\* pred_probs[i] names the instance whose prediction row i holds, 0 for the
\* zeros it starts with.
CV_Call(labels, K) ==
    /\ cv_pc = "idle"
    /\ cv_labels' = labels
    /\ cv_folds' = K
    /\ pred_probs' = [i \in Samples |-> 0]
    /\ row_writes' = [i \in Samples |-> 0]
    /\ models' = <<Untrained>>
    /\ fold' = 0
    /\ IF SplitRejected(labels, K)
       THEN /\ cv_pc' = "raised"
            /\ test_folds' = <<>>
       ELSE /\ cv_pc' = "loop"
            /\ test_folds' \in StratifiedTestFolds(labels, K)
    /\ UNCHANGED <<clVars, plVars>>

\* Lines 34..51: one pass of the loop.
CV_Fold ==
    /\ cv_pc = "loop"
    /\ fold < cv_folds
    /\ LET mc == ModelCopy(models)
           train_idx == TrainIdx(test_folds, fold)
           holdout_idx == HoldoutIdx(test_folds, fold)
       IN  /\ models' = Fit(mc.models, mc.id, train_idx)
           /\ pred_probs' =
                [i \in Samples |-> IF i \in holdout_idx THEN mc.id ELSE pred_probs[i]]
           /\ row_writes' =
                [i \in Samples |-> IF i \in holdout_idx THEN row_writes[i] + 1
                                   ELSE row_writes[i]]
    /\ fold' = fold + 1
    /\ UNCHANGED <<cv_pc, cv_labels, cv_folds, test_folds>>
    /\ UNCHANGED <<clVars, plVars>>

\* Line 58: return pred_probs.
CV_Return ==
    /\ cv_pc = "loop"
    /\ fold = cv_folds
    /\ cv_pc' = "returned"
    /\ UNCHANGED <<cv_labels, cv_folds, test_folds, fold, pred_probs, row_writes,
                   models>>
    /\ UNCHANGED <<clVars, plVars>>

InitCV ==
    /\ cv_pc = "idle"
    /\ cv_labels = <<>>
    /\ cv_folds = 0
    /\ test_folds = <<>>
    /\ fold = 0
    /\ pred_probs = <<>>
    /\ row_writes = <<>>
    /\ models = <<>>

NextCV ==
    \/ \E labels \in LabelVectors, K \in 1..MaxFolds : CV_Call(labels, K)
    \/ CV_Fold
    \/ CV_Return

\* ====================================================================
\* get_predicted_labels (label_issues.py 61..93)
\* ====================================================================
IssueMasks == [Samples -> BOOLEAN]

Range(seq) == {seq[k] : k \in 1..Len(seq)}

\* Variant of PredictInput: predict_proba(X=cleaned_dataset).
PredictInput_CleanOnly(cleaned) == cleaned

\* Line 88: predict_proba(X=dataset), the whole dataset.
PredictInput(cleaned) == [i \in Samples |-> i]

\* Lines 72..79: the clean subset and a fresh clone.
PL_Call(mask) ==
    /\ pl_pc = "idle"
    /\ pl_label_issues' = mask
    /\ pl_cleaned' = SubsetDataset(Invert(mask))
    /\ pl_model' = ModelCopy(<<Untrained>>)
    /\ pl_pc' = "cloned"
    /\ UNCHANGED predicted_labels
    /\ UNCHANGED <<clVars, cvVars>>

\* Line 85: model_copy.fit(X=cleaned_dataset).  What fit does with an empty
\* subset is up to the classifier: it may raise or go through.
PL_Fit ==
    /\ pl_pc = "cloned"
    /\ pl_model' = [pl_model EXCEPT
                        !.models = Fit(@, pl_model.id, Range(pl_cleaned))]
    /\ \/ pl_pc' = "fitted"
       \/ /\ pl_cleaned = <<>>
          /\ pl_pc' = "raised"
    /\ UNCHANGED <<pl_label_issues, pl_cleaned, predicted_labels>>
    /\ UNCHANGED <<clVars, cvVars>>

\* Lines 88..93: one predicted class per row of the prediction input.
PL_Predict ==
    /\ pl_pc = "fitted"
    /\ predicted_labels' \in [1..Len(PredictInput(pl_cleaned)) -> 0..MaxLabel]
    /\ pl_pc' = "returned"
    /\ UNCHANGED <<pl_label_issues, pl_cleaned, pl_model>>
    /\ UNCHANGED <<clVars, cvVars>>

InitPL ==
    /\ pl_pc = "idle"
    /\ pl_label_issues = <<>>
    /\ pl_cleaned = <<>>
    /\ pl_model = [models |-> <<Untrained>>, id |-> CallerModel]
    /\ predicted_labels = <<>>

NextPL ==
    \/ \E mask \in IssueMasks : PL_Call(mask)
    \/ PL_Fit
    \/ PL_Predict

Init == InitCL /\ InitCV /\ InitPL

Next ==
    \/ \E a \in CleanLabelsArgs : CL_Call(a)
    \/ CL_GetLabelIssues
    \/ CL_CreateTensors
    \/ CL_Restore
    \/ \E a \in CleanViewArgs : CleanView(a)
    \/ Finish

Spec == Init /\ [][Next]_vars

SpecCV == Init /\ [][NextCV]_vars

SpecPL == Init /\ [][NextPL]_vars

\* ====================================================================
\* Properties
\* ====================================================================
CleanLabelsRuns == op = "clean_labels" /\ pc # "idle"

HasEvent(name) == \E k \in 1..Len(log) : log[k].ev = name

\* C1: when the write step of clean_labels (create_tensors, a target branch, an
\* existing label_issues group, overwrite=False) fails and the error reaches
\* the caller, the active branch is the one that was active before the call.
C1_BranchRestoredAfterFailedWrite ==
    (/\ CleanLabelsRuns
     /\ pc = "raised"
     /\ err = "TensorAlreadyExistsError"
     /\ args.branch # None)
        => dataset.branch = entry.branch

\* C2: every written probability row i was produced by the clone made for
\* the fold that holds i out, fit once and on a subset without i; the supplied
\* model is never fit and each pass of the loop adds exactly one instance.
C2_NoLeakage ==
    cv_pc \in {"loop", "returned"} =>
        /\ models[CallerModel].fits = <<>>
        /\ Len(models) = fold + 1
        /\ \A m \in 2..Len(models) : Len(models[m].fits) = 1
        /\ \A i \in Samples :
              pred_probs[i] # 0 =>
                  /\ pred_probs[i] # CallerModel
                  /\ pred_probs[i] = test_folds[i] + 2
                  /\ \A k \in 1..Len(models[pred_probs[i]].fits) :
                        i \notin models[pred_probs[i]].fits[k]

C2_Witness ==
    /\ cv_pc = "returned"
    /\ cv_folds >= 2
    /\ \A i \in Samples : pred_probs[i] # 0
    /\ \E i, j \in Samples : pred_probs[i] # pred_probs[j]

\* C3: in a clean_labels call with create_tensors and a branch B, a missing B
\* is created and checked out, the tensors are written while B is active, and
\* on return the branch active before the call is active again.
C3_BranchCreatedWrittenRestored ==
    (/\ CleanLabelsRuns
     /\ args.create_tensors
     /\ args.branch # None
     /\ pc \in {"switched", "computed", "written", "returned"})
        => /\ args.branch \in dataset.branches
           /\ IF args.branch \in entry.branches
              THEN log[1] = Ev("checkout", args.branch)
              ELSE /\ log[1] = Ev("checkout_error", args.branch)
                   /\ log[2] = Ev("create", args.branch)
           /\ pc # "returned" => dataset.branch = args.branch
           /\ pc \in {"written", "returned"} =>
                 /\ \E k \in 1..Len(log) : log[k] = Ev("write", args.branch)
                 /\ dataset.tensors[args.branch] =
                        TensorGroup(results.label_issues,
                                    results.label_quality_scores)
           /\ pc = "returned" =>
                 /\ dataset.branch = entry.branch
                 /\ ret = results
                 /\ log[Len(log)] = Ev("checkout", entry.branch)

C3_Witness ==
    /\ CleanLabelsRuns
    /\ pc = "returned"
    /\ args.create_tensors
    /\ args.branch # None
    /\ args.branch \notin entry.branches
    /\ dataset.branch = entry.branch
    /\ dataset.tensors[args.branch].exists

\* C4: clean_labels with create_tensors on a read-only dataset fails at once:
\* no checkout, no new branch, no fit, no write; the dataset is as it was.
C4_ReadOnlyFailsFast ==
    (CleanLabelsRuns /\ args.create_tensors /\ entry.read_only)
        => /\ pc = "raised"
           /\ err = (IF ArgumentsRejected(args) THEN "TypeError" ELSE "ValueError")
           /\ log = <<>>
           /\ results = NoResults
           /\ dataset = entry

C4_Witness ==
    /\ CleanLabelsRuns
    /\ args.create_tensors
    /\ entry.read_only
    /\ args.branch # None
    /\ args.branch \notin entry.branches
    /\ pc = "raised"
    /\ err = "ValueError"

\* C5: the holdout sets of the folds are pairwise disjoint and cover all
\* indices; no row of the probability matrix is written twice, the rows
\* written so far are those of the folds done, and at the end every row has
\* been written exactly once.
C5_RowsWrittenOnce ==
    cv_pc \in {"loop", "returned"} =>
        /\ \A j, k \in 0..(cv_folds - 1) :
              j # k => {i \in Samples : test_folds[i] = j}
                          \cap {i \in Samples : test_folds[i] = k} = {}
        /\ UNION {{i \in Samples : test_folds[i] = j} : j \in 0..(cv_folds - 1)}
              = Samples
        /\ \A i \in Samples :
              /\ row_writes[i] <= 1
              /\ row_writes[i] = 1 <=> test_folds[i] < fold
              /\ row_writes[i] = 1 <=> pred_probs[i] # 0
        /\ cv_pc = "returned" => \A i \in Samples : row_writes[i] = 1

C5_Witness ==
    /\ cv_pc = "returned"
    /\ cv_folds = MaxFolds
    /\ \A i \in Samples : row_writes[i] = 1

\* C6: get_predicted_labels fits one fresh clone, once, on exactly the
\* samples whose mask entry is false, and returns one label per sample of the
\* whole dataset, flagged samples included.
C6_PredictedLabelsCoverDataset ==
    /\ pl_pc \in {"fitted", "returned"} =>
          /\ pl_model.id # CallerModel
          /\ Len(pl_model.models) = 2
          /\ pl_model.models[CallerModel].fits = <<>>
          /\ pl_model.models[pl_model.id].fits =
                 <<{i \in Samples : ~pl_label_issues[i]}>>
    /\ pl_pc = "returned" => DOMAIN predicted_labels = Samples

C6_Witness ==
    /\ pl_pc = "returned"
    /\ \E i \in Samples : pl_label_issues[i]
    /\ \E i \in Samples : ~pl_label_issues[i]
    /\ Len(predicted_labels) = NumSamples

\* C7: at the write step, with the label_issues group already on the active
\* branch: under overwrite the write goes through and the group holds this
\* call's mask and scores; without it the call fails with the
\* tensor-already-exists error and the dataset is left as it was.
C7_OverwritePolicy ==
    [][(/\ CleanLabelsRuns
        /\ pc = "computed"
        /\ args.create_tensors
        /\ dataset.tensors[dataset.branch].exists)
           => IF args.overwrite
              THEN /\ pc' = "written"
                   /\ dataset'.branch = dataset.branch
                   /\ dataset'.tensors[dataset.branch] =
                          TensorGroup(results.label_issues,
                                      results.label_quality_scores)
              ELSE /\ pc' = "raised"
                   /\ err' = "TensorAlreadyExistsError"
                   /\ dataset' = dataset]_vars

\* The group a call found on the branch it writes to.
GroupFound ==
    IF dataset.branch \in entry.branches
    THEN entry.tensors[dataset.branch]
    ELSE entry.tensors[entry.branch]

C7_Witness ==
    /\ CleanLabelsRuns
    /\ pc = "written"
    /\ args.create_tensors
    /\ args.overwrite
    /\ GroupFound.exists
    /\ GroupFound # dataset.tensors[dataset.branch]

\* v lists, in ascending order, exactly the positions mask leaves unflagged.
IsCleanViewOf(v, mask) ==
    /\ \A k \in 1..(Len(v) - 1) : v[k] < v[k + 1]
    /\ {v[k] : k \in 1..Len(v)} = {i \in 1..DsLen : ~mask[i]}

\* C8: clean_view uses a supplied mask even when a persisted one exists, else
\* the persisted one, else fails without a view; a view holds exactly the
\* unflagged positions in order, and the dataset is not modified.
C8_CleanViewSelection ==
    (op = "clean_view" /\ pc # "idle") =>
        /\ dataset = entry
        /\ label_issues.kind = "ndarray" =>
              /\ pc = "returned"
              /\ IsCleanViewOf(cleaned_dataset, label_issues.value)
        /\ (label_issues.kind = "None" /\ dataset.tensors[dataset.branch].exists) =>
              /\ pc = "returned"
              /\ IsCleanViewOf(cleaned_dataset,
                               dataset.tensors[dataset.branch].is_label_issue)
        /\ (label_issues.kind = "None" /\ ~dataset.tensors[dataset.branch].exists) =>
              /\ pc = "raised"
              /\ err = "ValueError"
              /\ cleaned_dataset = <<>>

C8_Witness ==
    /\ op = "clean_view"
    /\ pc = "returned"
    /\ label_issues.kind = "ndarray"
    /\ dataset.tensors[dataset.branch].exists
    /\ dataset.tensors[dataset.branch].is_label_issue # label_issues.value
    /\ Len(cleaned_dataset) = 1
    /\ ~IsCleanViewOf(cleaned_dataset,
                      dataset.tensors[dataset.branch].is_label_issue)

\* C9: clean_labels with create_tensors=False and a branch name: once the
\* pipeline has produced its triple the call returns it normally, having made
\* no checkout and left the active branch alone.
C9_BranchIgnoredWithoutCreateTensors ==
    (/\ CleanLabelsRuns
     /\ ~args.create_tensors
     /\ args.branch # None
     /\ results # NoResults
     /\ pc \in {"returned", "raised"})
        => /\ pc = "returned"
           /\ ret = results
           /\ dataset.branch = entry.branch
           /\ ~HasEvent("checkout") /\ ~HasEvent("create")

\* C10: with every sample flagged, get_predicted_labels fails before any
\* classifier is fit and returns no predicted labels.
C10_EmptyCleanSubsetRejected ==
    (pl_pc # "idle" /\ \A i \in Samples : pl_label_issues[i])
        => /\ pl_pc # "returned"
           /\ \A m \in 1..Len(pl_model.models) : pl_model.models[m].fits = <<>>
           /\ predicted_labels = <<>>
====
